---- MODULE Spec2Model ----
(***************************************************************************)
(* velenium: VisualElement, a multi-scale template search over a captured  *)
(* screen with a cached, ordered result set and a polling wait.            *)
(*                                                                         *)
(* The correlation primitive (cv.matchTemplate + cv.minMaxLoc) is an       *)
(* external capability.  A capture of the screen is represented, for the   *)
(* template it is searched with, by a "view": for some steps of the scale  *)
(* pyramid, the sequence of best scores that successive find-then-erase    *)
(* rounds report at that step.  Every other step, and every round past the *)
(* end of the sequence, reports score 0.  Scores are integers 0..MaxScore  *)
(* (a quantised correlation value), thresholds likewise.                   *)
(***************************************************************************)
EXTENDS Integers, Sequences, FiniteSets, TLC

\* shots: the captures every search decodes while the screen is held fixed
\* (SpecFixed); not used while the screen is free to change (Spec)
VARIABLES path, order, disposal, similarity, max_occurrences,
          searched, matches, shots, pc, timeout, elapsed, outcome

vars == <<path, order, disposal, similarity, max_occurrences,
          searched, matches, shots, pc, timeout, elapsed, outcome>>

config == <<path, order, disposal, similarity, max_occurrences>>

(* ------------------------------ bounds -------------------------------- *)
\* highest quantised correlation score
MaxScore == 2
\* most peaks (occurrences) the captures of one search hold, over all
\* templates and scale steps
MaxPeaks == 2
\* largest configured order and largest index passed to __getitem__
MaxOrder == 1
\* largest timeout passed to wait_until_visible / click
MaxTimeout == 2
\* longest time one search (is_visible) takes, in the unit of time.sleep
MaxSearchTime == 1
\* smallest value besides the constructor's default that the public
\* attribute max_occurrences is assigned before searching
SmallMaxOccurrences == 1

\* most peaks the captures of one search of a screen that is held fixed
\* hold
MaxFixedPeaks == 3

(* --------------------------- program constants ------------------------ *)
SIMILARITY_ORDER == 0
VERTICAL_ORDER == 1
HORIZONTAL_ORDER == 2
\* self.max_occurrences = 16 in __init__
DefaultMaxOccurrences == 16
\* np.linspace(0.2, 1.0, 20)
NumScales == 20
\* time.sleep(1)
SleepTime == 1
\* range(2) in the disposal validation of _find_matches
DisposalRange == 2

(* ------------------------------ inputs -------------------------------- *)
Scores == 1..MaxScore
Thresholds == 0..(MaxScore - 1)
Orders == 0..MaxOrder
Indices == 0..(MaxOrder + 1)
Disposals == 0..(HORIZONTAL_ORDER + 1)
Timeouts == 0..MaxTimeout
Durations == 0..MaxSearchTime
MaxOccurrencesValues == {SmallMaxOccurrences, DefaultMaxOccurrences}

\* the screen and the files below the template directory
Screen == [width |-> 100, height |-> 60]
Files == [a |-> [isfile |-> TRUE, w |-> 10, h |-> 15],
          b |-> [isfile |-> TRUE, w |-> 12, h |-> 13],
          d |-> [isfile |-> FALSE, w |-> 0, h |-> 0]]
Patterns == {"none*.png", "a.png", "*.png", "*"}

\* glob.glob(self.path) on that directory ("d" is a sub-directory)
Glob(p) ==
    CASE p = "a.png" -> <<"a">>
      [] p = "*.png" -> <<"a", "b">>
      [] p = "*" -> <<"a", "d">>
      [] OTHER -> <<>>

\* os.path.isfile and the shape of the decoded template
IsFile(tp) == Files[tp].isfile

\* steps of the pyramid at which a view may hold peaks
PeakScales == {0, 10}

\* the score sequences of one scale step
ScoreSeqs == UNION {[1..n -> Scores] : n \in 0..MaxPeaks}

Peaks(v) == Cardinality({p \in PeakScales \X (1..MaxPeaks) : p[2] <= Len(v[p[1]])})

Views == {v : v \in {u \in [PeakScales -> ScoreSeqs] : Peaks(u) <= MaxPeaks}}

\* the captures of one search that decodes n screenshots: one view per
\* capture, holding at most MaxPeaks peaks together
Captures0 == {<<>>}
Captures1 == {<<v>> : v \in Views}
Captures2 == {<<p[1], p[2]>> :
                 p \in {q \in Views \X Views : Peaks(q[1]) + Peaks(q[2]) <= MaxPeaks}}
CapturesOf(n) == CASE n = 0 -> Captures0 [] n = 1 -> Captures1 [] OTHER -> Captures2

\* the same for a screen that is held fixed while it is searched at
\* several thresholds
FixedScoreSeqs == UNION {[1..n -> Scores] : n \in 0..MaxFixedPeaks}

FixedPeaks(v) ==
    Cardinality({p \in PeakScales \X (1..MaxFixedPeaks) : p[2] <= Len(v[p[1]])})

FixedViews == {v : v \in {u \in [PeakScales -> FixedScoreSeqs] : FixedPeaks(u) <= MaxFixedPeaks}}

FixedCaptures1 == {<<v>> : v \in FixedViews}
FixedCaptures2 == {<<p[1], p[2]>> :
                      p \in {q \in FixedViews \X FixedViews :
                                FixedPeaks(q[1]) + FixedPeaks(q[2]) <= MaxFixedPeaks}}

AllViews == Views \cup FixedViews

(* ------------------------ correlation primitive ----------------------- *)
\* cv.minMaxLoc(cv.matchTemplate(...)) at pyramid step k, in find-then-erase
\* round j (1 = before any erase): the best score ...
MaxVal(view, k, j) ==
    IF k \in DOMAIN view /\ j <= Len(view[k]) THEN view[k][j] ELSE 0

\* ... and where it is, in the resized image
MaxLoc(j) == [x |-> ((2 * j) % 5) * 10, y |-> ((3 * j) % 5) * 3]

(* ----------------------------- geometry ------------------------------- *)
\* int(gray.shape[1] * scale), scale = linspace(0.2, 1.0, 20)[::-1][k]
ResizedWidth(k) ==
    (Screen.width * (10 * (NumScales - 1) - 8 * k)) \div (10 * (NumScales - 1))

\* imutils.resize keeps the aspect ratio: int(h * (width / float(w)))
ResizedHeight(k) == (Screen.height * ResizedWidth(k)) \div Screen.width

\* _get_bounds with r = gray.shape[1] / float(resized.shape[1])
GetBounds(loc, w, h, k) ==
    [start_x |-> (loc.x * Screen.width) \div ResizedWidth(k),
     start_y |-> (loc.y * Screen.width) \div ResizedWidth(k),
     end_x |-> ((loc.x + w) * Screen.width) \div ResizedWidth(k),
     end_y |-> ((loc.y + h) * Screen.width) \div ResizedWidth(k)]

VisualMatch(x, y, width, height, sim) ==
    [x |-> x, y |-> y, width |-> width, height |-> height, similarity |-> sim]

MatchAt(loc, w, h, k, val) ==
    LET b == GetBounds(loc, w, h, k)
    IN VisualMatch(b.start_x + (w \div 2), b.start_y + (h \div 2), w, h, val)

(* ------------------------------ search -------------------------------- *)
Config == [path |-> path, order |-> order, disposal |-> disposal,
           similarity |-> similarity, max_occurrences |-> max_occurrences]

\* the element of a one-element set (binds a value that is used many times)
Only(S) == CHOOSE x \in S : TRUE

NoOccurrence == [found |-> FALSE, val |-> 0, k |-> 0]

\* keeps the first scale above the threshold instead of the best one
NewMaximumFirstSeen(occurrence, max_val) == ~occurrence.found

\* "if occurrence is None or max_val > occurrence[0]"
NewMaximum(occurrence, max_val) == ~occurrence.found \/ max_val > occurrence.val

\* "for scale in np.linspace(0.2, 1.0, 20)[::-1]", from step k on
RECURSIVE ScaleLoop(_, _, _, _, _, _)
ScaleLoop(view, w, h, sim, k, occurrence) ==
    IF k >= NumScales THEN occurrence
    ELSE IF ResizedHeight(k) < h \/ ResizedWidth(k) < w THEN occurrence
    ELSE LET max_val == MaxVal(view, k, 1)
         IN IF max_val <= sim THEN ScaleLoop(view, w, h, sim, k + 1, occurrence)
            ELSE IF NewMaximum(occurrence, max_val)
                 THEN ScaleLoop(view, w, h, sim, k + 1,
                                [found |-> TRUE, val |-> max_val, k |-> k])
                 ELSE ScaleLoop(view, w, h, sim, k + 1, occurrence)

\* "for i in range(self.max_occurrences)": cover the previous best match and
\* match again on the image resized at step k, from round i on
RECURSIVE EraseLoop(_, _, _, _, _, _, _)
EraseLoop(cfg, view, w, h, k, i, found) ==
    IF i >= cfg.max_occurrences THEN found
    ELSE LET max_val == MaxVal(view, k, i + 2)
         IN IF max_val <= cfg.similarity THEN found
            ELSE EraseLoop(cfg, view, w, h, k, i + 1,
                           Append(found, MatchAt(MaxLoc(i + 2), w, h, k, max_val)))

\* the three checks that open _find_matches: the exception raised, or "none"
Validate(cfg, tp) ==
    IF ~IsFile(tp)
    THEN [exc |-> "TemplateRoute", nums |-> <<>>]
    ELSE IF cfg.disposal \notin 0..(DisposalRange - 1)
    THEN [exc |-> "Disposal", nums |-> <<cfg.disposal>>]
    ELSE IF cfg.order \notin 0..(cfg.max_occurrences - 1)
    THEN [exc |-> "Order", nums |-> <<cfg.order, cfg.max_occurrences>>]
    ELSE [exc |-> "none", nums |-> <<>>]

\* _find_matches past the checks, on the screenshot it captures: the matches
\* it adds to self.matches
FindMatches(cfg, tp, view) ==
    LET w == Files[tp].w
        h == Files[tp].h
    IN Only({IF ~occurrence.found THEN <<>>
             ELSE EraseLoop(cfg, view, w, h, occurrence.k, 0,
                            <<MatchAt(MaxLoc(1), w, h, occurrence.k, occurrence.val)>>) :
             occurrence \in {ScaleLoop(view, w, h, cfg.similarity, 0, NoOccurrence)}})

\* list.sort is stable; reverse=True keeps equal keys in their order too
SortKey(d, m) ==
    CASE d = VERTICAL_ORDER -> m.y
      [] d = HORIZONTAL_ORDER -> m.x
      [] OTHER -> 0 - m.similarity

InsertSorted(s, m, d) ==
    LET later == {i \in 1..Len(s) : SortKey(d, s[i]) > SortKey(d, m)}
        p == IF later = {} THEN Len(s) + 1
             ELSE CHOOSE i \in later : \A j \in later : i <= j
    IN SubSeq(s, 1, p - 1) \o <<m>> \o SubSeq(s, p, Len(s))

RECURSIVE SortFrom(_, _, _, _)
SortFrom(s, d, i, acc) ==
    IF i > Len(s) THEN acc ELSE SortFrom(s, d, i + 1, InsertSorted(acc, s[i], d))

\* the if / elif chain that closes _search_all_matches
Sorted(s, d) ==
    IF d \in {VERTICAL_ORDER, HORIZONTAL_ORDER, SIMILARITY_ORDER}
    THEN SortFrom(s, d, 1, <<>>)
    ELSE s

\* _find_matches reads two attributes of the element past its checks
FindKeys == [similarity : Thresholds, max_occurrences : MaxOccurrencesValues]

\* FindMatches tabulated over its inputs (the table is computed once)
FindTable ==
    [key \in FindKeys |->
        [tp \in {f \in DOMAIN Files : IsFile(f)} |->
            [view \in AllViews |-> FindMatches(key, tp, view)] @@ <<>>] @@ <<>>] @@ <<>>

Found(cfg, tp, view) ==
    FindTable[[similarity |-> cfg.similarity,
               max_occurrences |-> cfg.max_occurrences]][tp][view]

\* "for template_path in glob.glob(self.path)", from the i-th path on; views
\* are the screenshots still to be captured, used counts the captures so far
RECURSIVE SearchFrom(_, _, _, _, _, _)
SearchFrom(cfg, tps, i, views, used, found) ==
    IF i > Len(tps)
    THEN [exc |-> "none", nums |-> <<>>, searched |-> TRUE,
          matches |-> Sorted(found, cfg.disposal),
          ran |-> TRUE, captures |-> used]
    ELSE LET v == Validate(cfg, tps[i])
         IN IF v.exc # "none"
            THEN [exc |-> v.exc, nums |-> v.nums, searched |-> FALSE,
                  matches |-> found,
                  ran |-> TRUE, captures |-> used]
            ELSE SearchFrom(cfg, tps, i + 1, Tail(views), used + 1,
                            found \o Found(cfg, tps[i], Head(views)))

\* _search_all_matches: reset_object, every template, sort, set the flag
SearchAllMatches(cfg, views) == SearchFrom(cfg, Glob(cfg.path), 1, views, 0, <<>>)

\* how many screenshots that search captures
RECURSIVE CaptureCount(_, _, _)
CaptureCount(cfg, tps, i) ==
    IF i > Len(tps) \/ Validate(cfg, tps[i]).exc # "none" THEN 0
    ELSE 1 + CaptureCount(cfg, tps, i + 1)

Captures(cfg) == CapturesOf(CaptureCount(cfg, Glob(cfg.path), 1))

\* every configuration, and what a search can leave and report, over every
\* screen it may capture (the table is computed once)
Configs == [path : Patterns, order : Orders, disposal : Disposals,
            similarity : Thresholds, max_occurrences : MaxOccurrencesValues]

SearchResults ==
    [cfg \in Configs |->
        {SearchAllMatches(cfg, views) : views \in Captures(cfg)}] @@ <<>>

(* --------------------------- state machine ---------------------------- *)
\* A search yields a record: the exception that ended it ("none": it
\* completed) with the numbers of its message, the flag and the list it
\* leaves in the object, how many screenshots it captured, that it ran.
\*
\* what the last operation did: the exception it raised ("none": it
\* returned, "pending": it is still polling), the index it was asked for,
\* the numbers in the exception's message or the number returned, the
\* matches returned or tapped, whether it ran _search_all_matches, how many
\* screenshots it captured, and the time since start_time at which a
\* TimeoutException was raised
Out(op, exc, arg, nums, items, ran, captures, at) ==
    [op |-> op, exc |-> exc, arg |-> arg, nums |-> nums, items |-> items,
     ran |-> ran, captures |-> captures, at |-> at]

Init ==
    /\ path \in Patterns
    /\ order \in Orders
    /\ disposal \in Disposals
    /\ similarity \in Thresholds
    /\ max_occurrences \in MaxOccurrencesValues
    /\ searched = FALSE
    /\ matches = <<>>
    /\ shots = <<>>
    /\ pc = "idle"
    /\ timeout = 0
    /\ elapsed = 0
    /\ outcome = Out("init", "none", -1, <<>>, <<>>, FALSE, 0, 0)

\* searches again when the cached list is empty
UseCacheUnlessEmpty == searched /\ matches # <<>>

\* takes a non-empty list for a cached one
UseCacheIfFilled == searched \/ matches # <<>>

\* "self.matches if self._searched else ..."
UseCache == searched

\* "(self.matches if self._searched else self._search_all_matches().matches)"
\* (the results it may yield, the screen being what it is at that time)
Lookup ==
    IF UseCache
    THEN {[exc |-> "none", nums |-> <<>>, searched |-> searched,
           matches |-> matches, ran |-> FALSE, captures |-> 0]}
    ELSE SearchResults[Config]

\* is_visible always searches
Fresh == SearchResults[Config]

Store(r) ==
    /\ searched' = r.searched
    /\ matches' = r.matches

\* the index the message of __getitem__ reports
ReportedIndex(i) == order

\* "[i]" on the list r.matches, and the except clause of __getitem__
Subscript(op, r, i, at) ==
    IF r.exc # "none"
    THEN Out(op, r.exc, i, r.nums, <<>>, r.ran, r.captures, at)
    ELSE IF i < Len(r.matches)
    THEN Out(op, "none", i, <<>>, <<r.matches[i + 1]>>, r.ran, r.captures, at)
    ELSE Out(op, "IndexAbove", i, <<ReportedIndex(i), Len(r.matches)>>, <<>>,
             r.ran, r.captures, at)

\* __len__
LenOp ==
    /\ pc = "idle"
    /\ \E r \in Lookup :
            /\ Store(r)
            /\ outcome' = IF r.exc # "none"
                          THEN Out("len", r.exc, -1, r.nums, <<>>, r.ran, r.captures, 0)
                          ELSE Out("len", "none", -1, <<Len(r.matches)>>, <<>>,
                                   r.ran, r.captures, 0)
    /\ UNCHANGED <<config, shots, pc, timeout, elapsed>>

\* __getitem__(i)
GetItem ==
    /\ pc = "idle"
    /\ \E i \in Indices, r \in Lookup :
            /\ Store(r)
            /\ outcome' = Subscript("getitem", r, i, 0)
    /\ UNCHANGED <<config, shots, pc, timeout, elapsed>>

\* the index the match property asks for
MatchIndex == 0

\* match (property): "return self[0]"
MatchProperty ==
    /\ pc = "idle"
    /\ \E r \in Lookup :
            /\ Store(r)
            /\ outcome' = Subscript("match", r, MatchIndex, 0)
    /\ UNCHANGED <<config, shots, pc, timeout, elapsed>>

\* __iter__
IterOp ==
    /\ pc = "idle"
    /\ \E r \in Lookup :
            /\ Store(r)
            /\ outcome' = IF r.exc # "none"
                          THEN Out("iter", r.exc, -1, r.nums, <<>>, r.ran, r.captures, 0)
                          ELSE Out("iter", "none", -1, <<>>, r.matches,
                                   r.ran, r.captures, 0)
    /\ UNCHANGED <<config, shots, pc, timeout, elapsed>>

\* reset_object
ResetObject ==
    /\ pc = "idle"
    /\ searched' = FALSE
    /\ matches' = <<>>
    /\ outcome' = Out("reset_object", "none", -1, <<>>, <<>>, FALSE, 0, 0)
    /\ UNCHANGED <<config, shots, pc, timeout, elapsed>>

\* is_visible
IsVisible ==
    /\ pc = "idle"
    /\ \E r \in Fresh :
            /\ Store(r)
            /\ outcome' = IF r.exc # "none"
                          THEN Out("is_visible", r.exc, -1, r.nums, <<>>, TRUE, r.captures, 0)
                          ELSE Out("is_visible", "none", -1,
                                   <<IF r.matches # <<>> THEN 1 ELSE 0>>, <<>>,
                                   TRUE, r.captures, 0)
    /\ UNCHANGED <<config, shots, pc, timeout, elapsed>>

\* wait_until_visible(t): "start_time = datetime.now()"
WaitUntilVisible ==
    /\ pc = "idle"
    /\ \E t \in Timeouts : timeout' = t
    /\ pc' = "wait_until_visible"
    /\ elapsed' = 0
    /\ outcome' = Out("wait_until_visible", "pending", -1, <<>>, <<>>, FALSE, 0, 0)
    /\ UNCHANGED <<config, searched, matches, shots>>

\* click(t): wait_until_clickable(t) is wait_until_visible(t)
Click ==
    /\ pc = "idle"
    /\ \E t \in Timeouts : timeout' = t
    /\ pc' = "click"
    /\ elapsed' = 0
    /\ outcome' = Out("click", "pending", -1, <<>>, <<>>, FALSE, 0, 0)
    /\ UNCHANGED <<config, searched, matches, shots>>

\* gives up one sleep early
TimedOutEarly(time_delta, t) == time_delta + SleepTime >= t

\* "if time_delta.total_seconds() >= timeout"
TimedOut(time_delta, t) == time_delta >= t

\* one round of "while not self.is_visible()": the search takes d; then the
\* loop ends (found, or timed out, or the search raised) or sleeps.  click
\* goes on with "[self.order].click()" on the element the wait returns.
WaitPoll ==
    /\ pc \in {"wait_until_visible", "click"}
    /\ \E r \in Fresh, d \in Durations :
         \E time_delta \in {elapsed + d} :
            /\ Store(r)
            /\ IF r.exc # "none"
               THEN /\ outcome' = Out(pc, r.exc, -1, r.nums, <<>>, TRUE, r.captures, 0)
                    /\ pc' = "idle" /\ timeout' = 0 /\ elapsed' = 0
               ELSE IF r.matches # <<>>
               THEN /\ outcome' = IF pc = "click"
                                  THEN Subscript("click", r, order, 0)
                                  ELSE Out(pc, "none", -1, <<>>, <<>>, TRUE, r.captures, 0)
                    /\ pc' = "idle" /\ timeout' = 0 /\ elapsed' = 0
               ELSE IF TimedOut(time_delta, timeout)
               THEN /\ outcome' = Out(pc, "Timeout", -1, <<timeout>>, <<>>, TRUE,
                                      r.captures, time_delta)
                    /\ pc' = "idle" /\ timeout' = 0 /\ elapsed' = 0
               ELSE /\ elapsed' = time_delta + SleepTime
                    /\ UNCHANGED <<pc, timeout, outcome>>
    /\ UNCHANGED <<config, shots>>

Next ==
    \/ LenOp
    \/ GetItem
    \/ MatchProperty
    \/ IterOp
    \/ ResetObject
    \/ IsVisible
    \/ WaitUntilVisible
    \/ Click
    \/ WaitPoll

Spec == Init /\ [][Next]_vars

(* ------------- the same screen searched at several thresholds --------- *)
FixedCaptures(cfg) ==
    LET n == CaptureCount(cfg, Glob(cfg.path), 1)
    IN CASE n = 0 -> {<<>>} [] n = 1 -> FixedCaptures1 [] OTHER -> FixedCaptures2

\* an element over a screen that does not change: shots is what every
\* search of it captures
InitFixed ==
    /\ path \in Patterns
    /\ order \in Orders
    /\ disposal \in Disposals
    /\ similarity \in Thresholds
    /\ max_occurrences \in MaxOccurrencesValues
    /\ shots \in FixedCaptures(Config)
    /\ searched = FALSE
    /\ matches = <<>>
    /\ pc = "idle"
    /\ timeout = 0
    /\ elapsed = 0
    /\ outcome = Out("init", "none", -1, <<>>, <<>>, FALSE, 0, 0)

\* the element's similarity is set to t and it is searched again
\* (is_visible); the outcome keeps the threshold and the count before
SearchAgain ==
    /\ pc = "idle"
    /\ \E t \in Thresholds :
         \E r \in {SearchAllMatches([Config EXCEPT !.similarity = t], shots)} :
            /\ similarity' = t
            /\ searched' = r.searched
            /\ matches' = r.matches
            /\ outcome' = Out("search_again", r.exc, similarity,
                              IF searched THEN <<Len(matches)>> ELSE r.nums,
                              <<>>, TRUE, r.captures, 0)
    /\ UNCHANGED <<path, order, disposal, max_occurrences, shots, pc, timeout, elapsed>>

NextFixed == SearchAgain

SpecFixed == InitFixed /\ [][NextFixed]_vars

(* ------------------------------ claims -------------------------------- *)
Queries == {"len", "getitem", "match", "iter"}

\* C1: after a completed search the result set holds at most
\* max_occurrences matches.
C1_OccurrenceCap == searched => Len(matches) <= max_occurrences

\* C2: once the searched flag is set, a length, index or iteration query
\* runs no search, captures no screen, leaves the flag and the result set
\* as they are and answers from that result set.
C2_CacheReuse ==
    [][(searched /\ (LenOp \/ GetItem \/ MatchProperty \/ IterOp)) =>
          /\ searched' /\ matches' = matches
          /\ ~outcome'.ran /\ outcome'.captures = 0
          /\ outcome'.op = "len" => outcome'.nums = <<Len(matches)>>
          /\ outcome'.op = "iter" => outcome'.items = matches
          /\ (outcome'.op \in {"getitem", "match"} /\ outcome'.exc = "none") =>
                outcome'.items = <<matches[outcome'.arg + 1]>>]_vars

\* a query was answered from a cached result set of two or more matches
C2_Witness ==
    /\ searched /\ Len(matches) >= 2
    /\ outcome.op \in Queries /\ ~outcome.ran /\ outcome.exc = "none"

\* C3: with disposal = HORIZONTAL_ORDER, a valid order and an existing
\* template file, a fresh search raises nothing and returns the matches by
\* non-decreasing x.
C3_HorizontalAccepted ==
    (outcome.op = "is_visible" /\ disposal = HORIZONTAL_ORDER
        /\ order \in 0..(max_occurrences - 1) /\ path = "a.png") =>
       /\ outcome.exc = "none"
       /\ \A i \in 1..(Len(matches) - 1) : matches[i].x <= matches[i + 1].x

\* C4: a fresh search with a disposal outside the three policies, or an
\* order not below max_occurrences, raises a configuration error whatever
\* the pattern resolves to.
C4_AlwaysValidated ==
    (outcome.op = "is_visible"
        /\ (disposal \notin {SIMILARITY_ORDER, VERTICAL_ORDER, HORIZONTAL_ORDER}
            \/ order \notin 0..(max_occurrences - 1))) =>
       outcome.exc \in {"Disposal", "Order"}

\* C5: indexing at i fails as out of range exactly when i is not below the
\* number of found matches, and the failure reports i and that number.
C5_IndexReported ==
    (outcome.op = "getitem" /\ outcome.exc \in {"none", "IndexAbove"}) =>
       /\ outcome.exc = "IndexAbove" <=> outcome.arg >= Len(matches)
       /\ outcome.exc = "IndexAbove" => outcome.nums = <<outcome.arg, Len(matches)>>

\* C6: the match property returns the match at position order of the
\* result set, the one click() taps.
C6_MatchAtOrder ==
    (outcome.op = "match" /\ outcome.exc \in {"none", "IndexAbove"}
        /\ order < Len(matches)) =>
       outcome.items = <<matches[order + 1]>>

\* C7, as stated: wait_until_visible reports the timeout at an elapsed
\* time of at least timeout and less than timeout + 1.
C7_TimeoutWithinOneUnit ==
    (outcome.op = "wait_until_visible" /\ outcome.exc = "Timeout") =>
       /\ outcome.at >= outcome.nums[1]
       /\ outcome.at < outcome.nums[1] + SleepTime

\* C7, amended: the timeout is reported at an elapsed time of at least
\* timeout and less than timeout + 1 + the longest time one search takes;
\* wait_until_visible returns only when the search it just ran found a
\* match.
C7_TimeoutWithinOneUnitAndSearch ==
    /\ outcome.exc = "Timeout" =>
          /\ outcome.at >= outcome.nums[1]
          /\ outcome.at < outcome.nums[1] + SleepTime + MaxSearchTime
    /\ (outcome.op = "wait_until_visible" /\ outcome.exc = "none") =>
          (searched /\ matches # <<>>)

\* the timeout was reported a full sleep or more after it had elapsed
C7_Witness ==
    /\ outcome.op = "wait_until_visible" /\ outcome.exc = "Timeout"
    /\ outcome.nums[1] > 0
    /\ outcome.at >= outcome.nums[1] + SleepTime

\* C8: a completed search has captured the screen exactly once.
C8_OneCapture ==
    (outcome.op = "is_visible" /\ outcome.exc = "none") => outcome.captures = 1

\* C9: on the same screen, a search with a threshold that is not lower
\* returns no more matches than the search before it.
C9_ThresholdMonotone ==
    [][(searched /\ searched' /\ similarity <= similarity') =>
          Len(matches') <= Len(matches)]_vars

\* a higher threshold left some of the matches and dropped others
C9_Witness ==
    /\ outcome.op = "search_again" /\ outcome.exc = "none" /\ searched
    /\ outcome.arg < similarity
    /\ outcome.nums # <<>> /\ outcome.nums[1] > Len(matches)
    /\ Len(matches) >= 1

\* C10, as stated: while the searched flag is unset the result set is
\* empty.
C10_UnsearchedIsEmpty == ~searched => matches = <<>>

\* C10, amended: after construction and after reset_object the flag is
\* unset and the result set is empty; a search that raises may leave
\* matches behind with the flag unset, but a query never answers from an
\* un-searched list: one that ran no search found the flag set, and one
\* that answers (a value, or its out-of-range failure) leaves it set.
C10_UnsearchedNeverAnswers ==
    /\ outcome.op \in {"init", "reset_object"} => (~searched /\ matches = <<>>)
    /\ (outcome.op \in Queries /\ ~outcome.ran) => searched
    /\ (outcome.op \in Queries /\ outcome.exc \in {"none", "IndexAbove"}) => searched

\* a query on an un-searched element ran a search that raised on a later
\* template after an earlier one had added matches
C10_Witness ==
    /\ ~searched /\ matches # <<>>
    /\ outcome.op \in Queries /\ outcome.ran /\ outcome.exc = "TemplateRoute"

====
